---------------------------- MODULE Spec2Model ----------------------------
(***************************************************************************)
(* A model of Roxy, the LLM request-routing gateway: the key rotator       *)
(* (internal/rotation/rotator.go), the response cache (package cache) and  *)
(* the proxy handler (internal/proxy/server.go).                           *)
(*                                                                         *)
(* Every inbound request is served by its own goroutine; an action of the  *)
(* model is one critical section of the code (one sync.Mutex / RWMutex     *)
(* hold) together with the goroutine-local computation around it, or the   *)
(* return of one upstream HTTP call.  The clock `now` counts half minutes. *)
(***************************************************************************)
EXTENDS Integers, Sequences, FiniteSets, TLC

VARIABLES
    now,            \* time.Now(), in half minutes
    ModelRules,     \* cfg.ModelRules (fixed after load)
    keys,           \* KeyRotator.keys: sequence of ApiKey
    modelCounters,  \* Server.modelCounters: source model -> cursor
    entries,        \* Cache.entries: cache key -> CacheEntry
    hs,             \* one record per handler goroutine (handleProxy locals)
    env,            \* the deployment's clients: the bodies they send, how many
                    \* requests are in flight at once, how many they send, how
                    \* long the run lasts; the providers a direct caller of
                    \* the rotator asks keys for
    nreq,           \* number of inbound requests received so far
    nadded,         \* number of keys added by "#roxy add key"
    okLog,          \* history: per cache key, the successful responses stored
    resolved,       \* history: the targets returned by roundrobin resolutions,
                    \* in the order of getNextModelIndex's critical sections
    client          \* the sequential caller of the rotator API (TestRateLimiting)

vars == <<now, ModelRules, keys, modelCounters, entries, hs, env,
          nreq, nadded, okLog, resolved, client>>

---------------------------------------------------------------------------
(* Bounds of the model.                                                    *)

NumHandlers == 2      \* goroutines serving requests concurrently
MaxRequests == 3      \* inbound requests per behaviour
MaxTime == 2          \* last clock value of a run with concurrent requests
MaxSeqTime == 3       \* last clock value of a run with one request at a time
MaxAddedKeys == 1     \* "#roxy add key" commands per behaviour
NumVariants == 2      \* distinct success bodies an upstream may produce
MaxCalls == 6         \* rotator API calls of the sequential caller
MaxRotTime == 3       \* last clock value of the sequential caller's run
MaxCacheTime == 11    \* last clock value of a run that outlives the cache ttl
MaxResolutions == 6   \* inbound requests of a run under a roundrobin rule
MaxRRTime == 1        \* last clock value of a run under a roundrobin rule
MaxKeyRequests == 2   \* inbound requests of a run that compares fingerprints
MaxKeyTime == 1       \* last clock value of a run that compares fingerprints

Handlers == 1..NumHandlers

---------------------------------------------------------------------------
(* Program constants.                                                      *)

Minute == 2                        \* time.Minute, in clock units of 30 s
CacheTTL == 5 * Minute             \* cache.New(5 * time.Minute)
ZeroTime == -1                     \* time.Time{}: before every clock value
DefaultMaxRPM == 1000              \* handleAddCommand's default MaxRPM
StatusOK == 200
StatusBadRequest == 400
StatusTooManyRequests == 429
StatusInternalServerError == 500
StatusBadGateway == 502

---------------------------------------------------------------------------
(* Strings.                                                                *)

HasPrefix(s, p) == Len(s) >= Len(p) /\ SubSeq(s, 1, Len(p)) = p

UpperCase == "ABCDEFGHIJKLMNOPQRSTUVWXYZ"

LowerCase == "abcdefghijklmnopqrstuvwxyz"

RECURSIVE ToLower(_)
\* strings.ToLower for ASCII letters
ToLower(s) ==
    IF Len(s) = 0 THEN s
    ELSE LET c == SubSeq(s, 1, 1)
             at == {i \in 1..Len(UpperCase) : SubSeq(UpperCase, i, i) = c}
         IN  (IF at = {} THEN c
              ELSE LET i == CHOOSE i \in at : TRUE IN SubSeq(LowerCase, i, i))
             \o ToLower(SubSeq(s, 2, Len(s)))

Digits == <<"0", "1", "2", "3", "4", "5", "6", "7", "8", "9">>

RECURSIVE FormatInt(_)
\* fmt.Sprintf("%d", n) for n >= 0
FormatInt(n) ==
    IF n < 10 THEN Digits[n + 1]
    ELSE FormatInt(n \div 10) \o Digits[(n % 10) + 1]

\* fmt.Sprintf("%f", t) for a temperature given in tenths (7 is 0.7)
FormatFloat(tenths) ==
    FormatInt(tenths \div 10) \o "." \o Digits[(tenths % 10) + 1] \o "00000"

---------------------------------------------------------------------------
(* getProviderForModel: classification by model-name prefix.               *)

getProviderForModel(model) ==
    IF HasPrefix(model, "gpt-") THEN "openai"
    ELSE IF HasPrefix(model, "claude-") THEN "anthropic"
    ELSE IF HasPrefix(model, "openrouter/") THEN "openrouter"
    ELSE IF HasPrefix(model, "chutes/") THEN "chutes"
    ELSE "openai"

\* the providers handleProxy has an upstream endpoint for
SupportedProvider(provider) == provider \in {"openai", "anthropic"}

---------------------------------------------------------------------------
(* The key rotator.                                                        *)

\* resetAt and granted are history: the time of GetKey's latest reset of
\* usageCount, and the number of grants of the key since that reset
NewApiKey(cfg) ==
    [Provider |-> cfg.Provider, MaxRPM |-> cfg.MaxRPM,
     usageCount |-> 0, lastUsed |-> ZeroTime, resetAt |-> ZeroTime,
     granted |-> 0]

NewKeyRotator(configs) == [i \in 1..Len(configs) |-> NewApiKey(configs[i])]

\* now.Sub(key.lastUsed) >= time.Minute
MinuteElapsed(t, lastUsed) == lastUsed = ZeroTime \/ t - lastUsed >= Minute

WithinBudget_OffByOne(key) == key.usageCount <= key.MaxRPM

\* the budget test of GetKey
WithinBudget(key) == key.usageCount < key.MaxRPM

RECURSIVE GetKeyScan(_, _, _, _)
\* GetKey's loop from position i on: the keys as the scan leaves them and
\* the index of the key returned (0: the error "no available keys")
GetKeyScan(ks, provider, t, i) ==
    IF i > Len(ks) THEN [keys |-> ks, key |-> 0]
    ELSE IF ks[i].Provider # provider THEN GetKeyScan(ks, provider, t, i + 1)
    ELSE LET ks1 == IF MinuteElapsed(t, ks[i].lastUsed)
                    THEN [ks EXCEPT ![i].usageCount = 0, ![i].resetAt = t,
                                    ![i].granted = 0]
                    ELSE ks
         IN  IF WithinBudget(ks1[i])
             THEN [keys |-> [ks1 EXCEPT ![i].granted = @ + 1], key |-> i]
             ELSE GetKeyScan(ks1, provider, t, i + 1)

GetKey(ks, provider, t) == GetKeyScan(ks, provider, t, 1)

\* history: the providers one of whose keys has usageCount below its budget
WithBudget(ks) == {ks[k].Provider : k \in {i \in 1..Len(ks) : WithinBudget(ks[i])}}

ReportUsage(ks, k, t) ==
    [ks EXCEPT ![k].usageCount = @ + 1, ![k].lastUsed = t]

\* KeyRotator.AddKey is called by handleAddCommand but is not part of the
\* sources; modelled from the documented contract add(credential): append.
AddKey(ks, cfg) == Append(ks, NewApiKey(cfg))

---------------------------------------------------------------------------
(* The response cache.                                                     *)

\* time.Now().After(entry.ExpiresAt)
After(t, u) == t > u

CacheHit(es, key, t) == key \in DOMAIN es /\ ~After(t, es[key].ExpiresAt)

CacheGet(es, key, t) == IF CacheHit(es, key, t) THEN es[key].Data ELSE ""

CacheSet_KeepFirst(es, key, data, t) ==
    IF key \in DOMAIN es THEN es
    ELSE [k \in (DOMAIN es) \cup {key} |->
            IF k = key THEN [Data |-> data, ExpiresAt |-> t + CacheTTL] ELSE es[k]]

CacheSet(es, key, data, t) ==
    [k \in (DOMAIN es) \cup {key} |->
        IF k = key THEN [Data |-> data, ExpiresAt |-> t + CacheTTL] ELSE es[k]]

RECURSIVE WriteMessages(_)
\* the hash.Write calls of generateCacheKey's loop over req.Messages
WriteMessages(msgs) ==
    IF msgs = <<>> THEN ""
    ELSE Head(msgs).Role \o Head(msgs).Content \o WriteMessages(Tail(msgs))

\* generateCacheKey: the bytes written to the hash, in order.  The SHA-256
\* digest is injective on them for every purpose of the model, so the key
\* is represented by the bytes hashed.
generateCacheKey(req) ==
    req.Model \o WriteMessages(req.Messages)
        \o FormatInt(req.MaxTokens) \o FormatFloat(req.Temperature)

---------------------------------------------------------------------------
(* Routing: getNextModelIndex and the rule lookups of getTargetModel and   *)
(* of handleProxy's fallback chain.                                        *)

\* s.modelCounters[model]: a missing map entry reads as 0
CounterOf(counters, model) ==
    IF model \in DOMAIN counters THEN counters[model] ELSE 0

getNextModelIndex_Current(counters, model, total) ==
    CounterOf(counters, model) % total

\* the index getNextModelIndex stores and returns
getNextModelIndex(counters, model, total) ==
    (CounterOf(counters, model) + 1) % total

StoreCounter_Lost(counters, model, next) == counters

\* line 97: s.modelCounters[model] = next
StoreCounter(counters, model, next) ==
    [m \in (DOMAIN counters) \cup {model} |->
        IF m = model THEN next ELSE counters[m]]

RECURSIVE MatchRule(_, _, _)
\* getTargetModel's loop over the rules from position r on: the first rule
\* whose SourceModel is sourceModel (0: none is left)
MatchRule(rules, sourceModel, r) ==
    IF r > Len(rules) THEN 0
    ELSE IF rules[r].SourceModel = sourceModel THEN r
    ELSE MatchRule(rules, sourceModel, r + 1)

RECURSIVE FallbackRuleFrom(_, _, _)
FallbackRuleFrom(rules, model, r) ==
    IF r > Len(rules) THEN 0
    ELSE IF rules[r].SourceModel = model /\ rules[r].SelectionPolicy = "fallback"
         THEN r
    ELSE FallbackRuleFrom(rules, model, r + 1)

\* handleProxy after a 429: the rule whose chain is iterated, looked up
\* with req.Model as it stands then (0: no chain)
FallbackRule(rules, reqModel) == FallbackRuleFrom(rules, reqModel, 1)

---------------------------------------------------------------------------
(* Upstream providers: what one call may return.                           *)

NilResp == [StatusCode |-> 0, Body |-> "", closed |-> FALSE]

SuccessBody(model, v) == "Mock response for: " \o model \o " #" \o FormatInt(v)

\* the responses a provider may give to a call for `model`
UpstreamResponses(model) ==
    {[StatusCode |-> StatusOK, Body |-> SuccessBody(model, v), closed |-> FALSE] :
        v \in 1..NumVariants}
    \cup {[StatusCode |-> StatusTooManyRequests,
           Body |-> "rate_limit_error: " \o model, closed |-> FALSE],
          [StatusCode |-> StatusInternalServerError,
           Body |-> "server_error: " \o model, closed |-> FALSE]}

---------------------------------------------------------------------------
(* Inbound traffic.                                                        *)

NoRequest == [Model |-> "", Messages |-> <<>>, MaxTokens |-> 0, Temperature |-> 0]

\* the chat-completion requests clients send for the models of `models`
Requests(models) ==
    {[Model |-> m, Messages |-> <<[Role |-> "user", Content |-> "Hello"]>>,
      MaxTokens |-> 0, Temperature |-> 0] : m \in models}

\* strings.Fields of the administrative bodies clients send
Commands ==
    {<<"#roxy", "add", "key", "openrouter", "sk-or">>,
     <<"#roxy", "cache", "clear">>}

ChatMessage(role, content) == [Role |-> role, Content |-> content]

LLMRequest(model, messages, maxTokens, tenths) ==
    [Model |-> model, Messages |-> messages, MaxTokens |-> maxTokens,
     Temperature |-> tenths]

\* requests that differ from one another in one fingerprint field or in how
\* their text is split between neighbouring fields
VariedRequests ==
    {LLMRequest("gpt-4", <<ChatMessage("user", "Hello")>>, 0, 0),
     LLMRequest("gpt-4", <<ChatMessage("user", "Hello")>>, 0, 7),
     LLMRequest("gpt-4", <<ChatMessage("user", "Hello")>>, 10, 0),
     LLMRequest("gpt-4", <<ChatMessage("a", "bc")>>, 0, 0),
     LLMRequest("gpt-4", <<ChatMessage("ab", "c")>>, 0, 0),
     LLMRequest("gpt-4", <<ChatMessage("a", "b"), ChatMessage("c", "d")>>, 0, 0),
     LLMRequest("gpt-4", <<ChatMessage("c", "d"), ChatMessage("a", "b")>>, 0, 0),
     LLMRequest("gpt-4", <<>>, 10, 0),
     LLMRequest("gpt-41", <<>>, 0, 0)}

JsonBodies(models) ==
    {[kind |-> "json", req |-> r, parts |-> <<>>] : r \in Requests(models)}

CommandBodies == {[kind |-> "command", req |-> NoRequest, parts |-> c] : c \in Commands}

MalformedBody == [kind |-> "malformed", req |-> NoRequest, parts |-> <<>>]

---------------------------------------------------------------------------
(* The handler goroutine: the locals of one handleProxy call.              *)

NoResponse == [code |-> 0, body |-> ""]

Idle ==
    [pc |-> "idle", in |-> NoRequest, req |-> NoRequest, cacheKey |-> "",
     targetModel |-> "", provider |-> "", key |-> 0, r |-> 1, j |-> 1,
     resp |-> NilResp, i |-> 0, lr |-> 0, w |-> NoResponse, panicked |-> FALSE,
     calls |-> <<>>, grants |-> <<>>, reports |-> <<>>, skipped |-> <<>>,
     first |-> "", latest |-> "", hit |-> FALSE, kind |-> "", parts |-> <<>>,
     avail |-> {}]

\* a handler that never calls WriteHeader: net/http then answers 200
Respond_ImplicitOK(h, code, body) ==
    [h EXCEPT !.w = [code |-> StatusOK, body |-> body]]

Respond(h, code, body) == [h EXCEPT !.w = [code |-> code, body |-> body]]

\* http.Error(w, ...) and return before the deferred ReportUsage is registered
Fail(h, code, body) == [Respond(h, code, body) EXCEPT !.pc = "done"]

\* a return after line 179: the deferred ReportUsage is still to run
Return(h) == [h EXCEPT !.pc = "return"]

\* history: one more upstream call issued for `model` with credential k
Called(h, model, k) ==
    [h EXCEPT !.calls = Append(@, [model |-> model, key |-> k, status |-> -1,
                                   body |-> ""])]

\* history: the call in flight has returned `out` (NilResp: transport error)
Returned(h, out) ==
    [h EXCEPT !.calls = [@ EXCEPT ![Len(@)].status = out.StatusCode,
                                  ![Len(@)].body = out.Body]]

\* history: GetKey found no credential for a candidate, which is passed over
Skipped(h, model) == [h EXCEPT !.skipped = Append(@, model)]

\* history: GetKey granted credential k, whose usageCount was `usage`
Granted(h, k, usage) ==
    [h EXCEPT !.grants = Append(@, [key |-> k, usage |-> usage, at |-> now])]

\* history: ReportUsage was called for credential k
Reported(h, k) == [h EXCEPT !.reports = Append(@, k)]

---------------------------------------------------------------------------
(* handleCommand, handleAddCommand.                                        *)

\* the response written for the command `parts`
CommandResponse(h, parts) ==
    IF Len(parts) < 2
    THEN Fail(h, StatusBadRequest, "Invalid command format")
    ELSE IF parts[2] = "add"
    THEN IF Len(parts) - 2 < 3 \/ parts[3] # "key"
         THEN Fail(h, StatusBadRequest, "Usage: #roxy add key [provider] [key]")
         ELSE Fail(h, StatusOK, "Added key for provider: " \o parts[4])
    ELSE IF parts[2] = "list"
    THEN IF Len(parts) - 2 < 1 \/ parts[3] # "keys"
         THEN Fail(h, StatusBadRequest, "Usage: #roxy list keys")
         ELSE Fail(h, StatusOK, "Provider: ...")
    ELSE IF parts[2] = "help"
    THEN Fail(h, StatusOK, "Available commands: ...")
    ELSE Fail(h, StatusBadRequest, "Unknown command")

\* the key handleAddCommand adds for the command `parts` (<<>>: none)
CommandAddsKey(parts) ==
    Len(parts) >= 5 /\ parts[2] = "add" /\ parts[3] = "key"

handleCommand(p, h, parts) ==
    /\ hs' = [hs EXCEPT ![p] = CommandResponse(h, parts)]
    /\ IF CommandAddsKey(parts)
       THEN /\ nadded < MaxAddedKeys
            /\ nadded' = nadded + 1
            /\ keys' = AddKey(keys, [Provider |-> parts[4], MaxRPM |-> DefaultMaxRPM])
       ELSE UNCHANGED <<keys, nadded>>
    /\ UNCHANGED <<entries, okLog, resolved>>

---------------------------------------------------------------------------
(* handleProxy.                                                            *)

\* history read at arrival: the first and the latest successful response
\* stored for cacheKey less than the ttl ago ("": none)
LogFirst(log, cacheKey, t) ==
    IF cacheKey \in DOMAIN log /\ t - log[cacheKey].firstAt < CacheTTL
    THEN log[cacheKey].first ELSE ""

LogLatest(log, cacheKey, t) ==
    IF cacheKey \in DOMAIN log /\ t - log[cacheKey].latestAt < CacheTTL
    THEN log[cacheKey].latest ELSE ""

\* history written with every cache.Set: the body stored, and the status of
\* the response it was read from and the request as received (`from`)
LogStore(log, cacheKey, body, t, resp, in) ==
    [k \in (DOMAIN log) \cup {cacheKey} |->
        IF k = cacheKey
        THEN [first |-> IF k \in DOMAIN log THEN log[k].first ELSE body,
              firstAt |-> IF k \in DOMAIN log THEN log[k].firstAt ELSE t,
              latest |-> body, latestAt |-> t,
              status |-> resp.StatusCode, from |-> in]
        ELSE log[k]]

CacheCheck_ReportsFirst(p, h, req) ==
    LET cacheKey == generateCacheKey(req)
        h1 == [h EXCEPT !.req = req, !.cacheKey = cacheKey,
                        !.first = LogFirst(okLog, cacheKey, now),
                        !.latest = LogLatest(okLog, cacheKey, now)]
    IN  /\ hs' = [hs EXCEPT ![p] =
                    IF CacheHit(entries, cacheKey, now)
                    THEN Fail([h1 EXCEPT !.hit = TRUE], StatusOK,
                              CacheGet(entries, cacheKey, now))
                    ELSE [h1 EXCEPT !.pc = "routing"]]
        /\ keys' = IF CacheHit(entries, cacheKey, now) /\ keys # <<>>
                   THEN ReportUsage(keys, 1, now) ELSE keys
        /\ UNCHANGED <<nadded, entries, okLog, resolved>>

\* lines 156-168: parse, fingerprint, cache lookup
CacheCheck(p, h, req) ==
    LET cacheKey == generateCacheKey(req)
        h1 == [h EXCEPT !.req = req, !.cacheKey = cacheKey,
                        !.first = LogFirst(okLog, cacheKey, now),
                        !.latest = LogLatest(okLog, cacheKey, now)]
    IN  /\ hs' = [hs EXCEPT ![p] =
                    IF CacheHit(entries, cacheKey, now)
                    THEN Fail([h1 EXCEPT !.hit = TRUE], StatusOK,
                              CacheGet(entries, cacheKey, now))
                    ELSE [h1 EXCEPT !.pc = "routing"]]
        /\ UNCHANGED <<keys, nadded, entries, okLog, resolved>>

handleMalformed_Ignored(p, h) == CacheCheck(p, h, NoRequest)

\* lines 157-161: json.Unmarshal fails
handleMalformed(p, h) ==
    /\ hs' = [hs EXCEPT ![p] = Fail(h, StatusBadRequest, "Invalid request format")]
    /\ UNCHANGED <<keys, nadded, entries, okLog, resolved>>

\* lines 141-168: a request arrives at an idle goroutine
Receive(p) ==
    /\ hs[p].pc \in {"idle", "done"}
    /\ p <= env.concurrent
    /\ nreq < env.requests
    /\ nreq' = nreq + 1
    /\ \E body \in env.inbound :
          LET h == [Idle EXCEPT !.in = body.req, !.kind = body.kind,
                                !.parts = body.parts,
                                !.avail = WithBudget(keys)]
          IN  CASE body.kind = "command" -> handleCommand(p, h, body.parts)
                [] body.kind = "malformed" -> handleMalformed(p, h)
                [] OTHER -> CacheCheck(p, h, body.req)
    /\ UNCHANGED <<now, ModelRules, modelCounters, env, client>>

\* rand.Intn(total - 1): the last candidate is never drawn
RandomIndices_SkipsLast(total) == 0..(total - 2)

\* line 106: rand.Intn(total) draws any index in [0, total)
RandomIndices(total) == 0..(total - 1)

\* the candidate getTargetModel returns
Selected(h, model) ==
    [h EXCEPT !.targetModel = model, !.provider = getProviderForModel(model),
              !.pc = "getKey"]

\* lines 101-124: getTargetModel(req.Model), up to its next critical section
Route(p) ==
    /\ hs[p].pc = "routing"
    /\ LET h == hs[p]
           sourceModel == h.req.Model
           m == MatchRule(ModelRules, sourceModel, h.r)
       IN  IF m = 0
           THEN /\ hs' = [hs EXCEPT ![p] = Selected(h, sourceModel)]
                /\ UNCHANGED <<keys, modelCounters, resolved>>
           ELSE LET rule == ModelRules[m]
                    targets == rule.TargetModels
                IN  CASE rule.SelectionPolicy = "random" ->
                           /\ \E idx \in RandomIndices(Len(targets)) :
                                 hs' = [hs EXCEPT ![p] = Selected(h, targets[idx + 1])]
                           /\ UNCHANGED <<keys, modelCounters, resolved>>
                      [] rule.SelectionPolicy = "roundrobin" ->
                           LET idx == getNextModelIndex(modelCounters, sourceModel,
                                                        Len(targets))
                           IN  /\ modelCounters' =
                                     StoreCounter(modelCounters, sourceModel, idx)
                               /\ hs' = [hs EXCEPT ![p] = Selected(h, targets[idx + 1])]
                               /\ resolved' = Append(resolved, targets[idx + 1])
                               /\ UNCHANGED keys
                      [] rule.SelectionPolicy = "fallback" ->
                           LET model == targets[h.j]
                               got == GetKey(keys, getProviderForModel(model), now)
                           IN  /\ keys' = got.keys
                               /\ hs' = [hs EXCEPT ![p] =
                                    IF got.key # 0
                                    THEN [Granted(Selected(h, model), got.key,
                                                  got.keys[got.key].usageCount)
                                            EXCEPT !.key = got.key, !.r = m,
                                                   !.pc = "routeReport"]
                                    ELSE IF h.j < Len(targets)
                                    THEN [Skipped(h, model) EXCEPT
                                             !.r = m, !.j = h.j + 1]
                                    ELSE [Skipped(h, model) EXCEPT
                                             !.r = m + 1, !.j = 1]]
                               /\ UNCHANGED <<modelCounters, resolved>>
                      [] OTHER ->
                           /\ hs' = [hs EXCEPT ![p] = [h EXCEPT !.r = m + 1, !.j = 1]]
                           /\ UNCHANGED <<keys, modelCounters, resolved>>
    /\ UNCHANGED <<now, ModelRules, entries, env, nreq, nadded, okLog, client>>

\* line 116: getTargetModel reports the key it probed and returns
RouteReport(p) ==
    /\ hs[p].pc = "routeReport"
    /\ keys' = ReportUsage(keys, hs[p].key, now)
    /\ hs' = [hs EXCEPT ![p] = [Reported(hs[p], hs[p].key) EXCEPT !.pc = "getKey"]]
    /\ UNCHANGED <<now, ModelRules, modelCounters, entries, env, nreq,
                   nadded, okLog, resolved, client>>

\* lines 173-216: GetKey for the chosen provider, then the request is built
AcquireKey(p) ==
    /\ hs[p].pc = "getKey"
    /\ LET h == hs[p]
           got == GetKey(keys, h.provider, now)
           h1 == IF got.key = 0 THEN h
                 ELSE [Granted(h, got.key, got.keys[got.key].usageCount)
                         EXCEPT !.key = got.key, !.req.Model = h.targetModel]
       IN  /\ keys' = got.keys
           /\ hs' = [hs EXCEPT ![p] =
                IF got.key = 0
                THEN Fail(h, StatusTooManyRequests, "No available API keys")
                ELSE IF ~SupportedProvider(h.provider)
                THEN Return(Respond(h1, StatusBadRequest, "Unsupported provider"))
                ELSE [Called(h1, h.targetModel, got.key) EXCEPT !.pc = "upstream"]]
    /\ UNCHANGED <<now, ModelRules, modelCounters, entries, env, nreq,
                   nadded, okLog, resolved, client>>

RateLimited_AnyFailure(resp) == resp.StatusCode # StatusOK

\* line 228: resp.StatusCode == http.StatusTooManyRequests
RateLimited(resp) == resp.StatusCode = StatusTooManyRequests

\* the chain's loop counter and test (i := 1 at entry, then i++): the next iteration, or the loop is left
Advance(h) ==
    IF h.i + 1 < Len(ModelRules[h.lr].TargetModels)
    THEN [h EXCEPT !.i = h.i + 1, !.pc = "fallback"]
    ELSE [h EXCEPT !.i = h.i + 1, !.pc = "finish"]

\* a handler that drops the error of client.Do
TransportFailed_Ignored(out) == FALSE

\* line 219: err != nil, client.Do returned no response
TransportFailed(out) == out = NilResp

\* lines 218-279: client.Do returns; on a 429 the fallback chain is looked up
Upstream(p) ==
    /\ hs[p].pc = "upstream"
    /\ LET h == hs[p] IN
       \E out \in UpstreamResponses(h.req.Model) \cup {NilResp} :
          hs' = [hs EXCEPT ![p] =
             IF TransportFailed(out)
             THEN Return(Respond(Returned(h, out), StatusBadGateway,
                                 "Provider request failed"))
             ELSE LET h1 == [Returned(h, out) EXCEPT !.resp = out]
                      lr == FallbackRule(ModelRules, h.req.Model)
                  IN  IF RateLimited(out) /\ lr # 0
                      THEN Advance([h1 EXCEPT !.lr = lr, !.i = 0])
                      ELSE [h1 EXCEPT !.pc = "finish"]]
    /\ UNCHANGED <<now, ModelRules, keys, modelCounters, entries, env,
                   nreq, nadded, okLog, resolved, client>>

\* lines 232-266: one iteration of the fallback chain up to its client.Do
FallbackTry(p) ==
    /\ hs[p].pc = "fallback"
    /\ LET h == hs[p]
           nextModel == ModelRules[h.lr].TargetModels[h.i + 1]
           nextProvider == getProviderForModel(nextModel)
           got == GetKey(keys, nextProvider, now)
           h1 == IF got.key = 0 THEN h
                 ELSE [Granted(h, got.key, got.keys[got.key].usageCount)
                         EXCEPT !.req.Model = nextModel]
       IN  /\ keys' = got.keys
           /\ hs' = [hs EXCEPT ![p] =
                IF got.key = 0 THEN Advance(Skipped(h, nextModel))
                ELSE IF ~SupportedProvider(nextProvider)
                \* targetURL is "": client.Do fails at once, resp becomes nil
                THEN Advance([h1 EXCEPT !.resp = NilResp])
                ELSE [Called(h1, nextModel, got.key) EXCEPT !.pc = "fbUpstream"]]
    /\ UNCHANGED <<now, ModelRules, modelCounters, entries, env, nreq,
                   nadded, okLog, resolved, client>>

\* lines 268-275: the chain's client.Do returns
FallbackUpstream(p) ==
    /\ hs[p].pc = "fbUpstream"
    /\ LET h == hs[p] IN
       \E out \in UpstreamResponses(h.req.Model) \cup {NilResp} :
          hs' = [hs EXCEPT ![p] =
             IF out = NilResp
             THEN Advance([Returned(h, out) EXCEPT !.resp = NilResp])
             ELSE IF out.StatusCode = StatusOK
             THEN [Returned(h, out) EXCEPT !.resp = out, !.pc = "finish"]
             ELSE Advance([Returned(h, out) EXCEPT
                              !.resp = [out EXCEPT !.closed = TRUE]])]
    /\ UNCHANGED <<now, ModelRules, keys, modelCounters, entries, env,
                   nreq, nadded, okLog, resolved, client>>

\* a handler that stores every response it forwards
Cacheable_Always(resp) == TRUE

\* line 288: resp.StatusCode == http.StatusOK
Cacheable(resp) == resp.StatusCode = StatusOK

\* lines 281-295: read the body, cache a success, write the response
Finish(p) ==
    /\ hs[p].pc = "finish"
    /\ LET h == hs[p] IN
       IF h.resp = NilResp
       THEN \* resp.Body on a nil *http.Response: the handler panics
            /\ hs' = [hs EXCEPT ![p] = Return([h EXCEPT !.panicked = TRUE])]
            /\ UNCHANGED <<entries, okLog>>
       ELSE IF h.resp.closed
       THEN \* io.ReadAll on a closed body fails
            /\ hs' = [hs EXCEPT ![p] =
                 Return(Respond(h, StatusInternalServerError, "Failed to read response"))]
            /\ UNCHANGED <<entries, okLog>>
       ELSE /\ hs' = [hs EXCEPT ![p] =
                 Return(Respond(h, h.resp.StatusCode, h.resp.Body))]
            /\ IF Cacheable(h.resp)
               THEN /\ entries' = CacheSet(entries, h.cacheKey, h.resp.Body, now)
                    /\ okLog' = LogStore(okLog, h.cacheKey, h.resp.Body, now,
                                         h.resp, h.in)
               ELSE UNCHANGED <<entries, okLog>>
    /\ UNCHANGED <<now, ModelRules, keys, modelCounters, env, nreq,
                   nadded, resolved, client>>

\* line 179: the deferred ReportUsage(key, 0) runs as handleProxy returns
Deferred(p) ==
    /\ hs[p].pc = "return"
    /\ keys' = ReportUsage(keys, hs[p].key, now)
    /\ hs' = [hs EXCEPT ![p] = [Reported(hs[p], hs[p].key) EXCEPT !.pc = "done"]]
    /\ UNCHANGED <<now, ModelRules, modelCounters, entries, env, nreq,
                   nadded, okLog, resolved, client>>

\* the wall clock advances
Tick ==
    /\ now < env.horizon
    /\ now' = now + 1
    /\ UNCHANGED <<ModelRules, keys, modelCounters, entries, hs, env,
                   nreq, nadded, okLog, resolved, client>>

---------------------------------------------------------------------------
(* Deployments: the configuration loaded at start, and the clients.        *)

APIKey(provider, maxRPM) == [Provider |-> provider, MaxRPM |-> maxRPM]

ModelRule(source, targets, policy) ==
    [SourceModel |-> source, TargetModels |-> targets, SelectionPolicy |-> policy]

\* the configuration of TestProxyServer with budgets of two requests a
\* minute, serving concurrent requests for gpt-4
TestConfig ==
    [APIKeys |-> <<APIKey("openai", 2), APIKey("anthropic", 2)>>,
     ModelRules |-> <<ModelRule("gpt-4", <<"gpt-4", "claude-2">>, "fallback")>>,
     inbound |-> JsonBodies({"gpt-4"}) \cup {MalformedBody},
     concurrent |-> NumHandlers, horizon |-> MaxTime, requests |-> MaxRequests,
     providers |-> {}]

\* the same configuration serving one request at a time
TestConfigSeq ==
    [TestConfig EXCEPT !.inbound = JsonBodies({"gpt-4", "claude-2"}) \cup CommandBodies,
                       !.concurrent = 1, !.horizon = MaxSeqTime]

\* rules whose source model is an alias, and a random rule, one request at
\* a time
AliasConfig ==
    [APIKeys |-> <<APIKey("openai", 2), APIKey("anthropic", 2)>>,
     ModelRules |-> <<ModelRule("gpt-4", <<"gpt-4", "claude-2">>, "fallback"),
                      ModelRule("best", <<"claude-2", "gpt-4">>, "fallback"),
                      ModelRule("pro", <<"gpt-4", "claude-instant">>, "fallback"),
                      ModelRule("any", <<"gpt-4", "claude-2">>, "random")>>,
     inbound |-> JsonBodies({"best", "pro", "any"}),
     concurrent |-> 1, horizon |-> MaxSeqTime, requests |-> MaxRequests,
     providers |-> {}]

\* a rule whose source model is its own second candidate and a rule whose
\* source model belongs to another provider than its candidates, with an
\* anthropic budget of one request a minute, one request at a time
OverlapConfig ==
    [APIKeys |-> <<APIKey("openai", 2), APIKey("anthropic", 1)>>,
     ModelRules |-> <<ModelRule("gpt-4", <<"claude-2", "gpt-4">>, "fallback"),
                      ModelRule("claude-best", <<"gpt-4", "gpt-3.5-turbo">>,
                                "fallback")>>,
     inbound |-> JsonBodies({"gpt-4", "claude-best"}),
     concurrent |-> 1, horizon |-> 0, requests |-> MaxRequests,
     providers |-> {}]

\* a fallback rule whose second candidate belongs to openrouter, a provider
\* with a credential and no upstream endpoint, one request at a time
UnsupportedConfig ==
    [APIKeys |-> <<APIKey("openai", 2), APIKey("openrouter", 2)>>,
     ModelRules |-> <<ModelRule("gpt-4", <<"gpt-4", "openrouter/auto">>,
                                "fallback")>>,
     inbound |-> JsonBodies({"gpt-4", "openrouter/auto"}),
     concurrent |-> 1, horizon |-> 0, requests |-> MaxRequests,
     providers |-> {}]

\* a configuration written with capitals: the openai credential's provider
\* is "OpenAI" and the rule's selection policy is "Fallback"
MixedCaseConfig ==
    [APIKeys |-> <<APIKey("OpenAI", 2), APIKey("anthropic", 2)>>,
     ModelRules |-> <<ModelRule("claude-best", <<"gpt-4", "claude-2">>,
                                "Fallback")>>,
     inbound |-> JsonBodies({"gpt-4", "claude-best"}),
     concurrent |-> 1, horizon |-> 0, requests |-> MaxRequests,
     providers |-> {}]

\* a roundrobin rule with three candidates, concurrent requests
RoundRobinConfig ==
    [APIKeys |-> <<APIKey("openai", 2), APIKey("anthropic", 2)>>,
     ModelRules |-> <<ModelRule("rr", <<"gpt-4", "claude-2", "gpt-3.5-turbo">>,
                                "roundrobin")>>,
     inbound |-> JsonBodies({"rr"}),
     concurrent |-> NumHandlers, horizon |-> MaxRRTime,
     requests |-> MaxResolutions, providers |-> {}]

\* the same rule, one request at a time
RoundRobinSeqConfig == [RoundRobinConfig EXCEPT !.concurrent = 1]

\* no rules, concurrent requests that differ in their fingerprint fields
FingerprintConfig ==
    [APIKeys |-> <<APIKey("openai", 2)>>, ModelRules |-> <<>>,
     inbound |-> {[kind |-> "json", req |-> r, parts |-> <<>>] : r \in VariedRequests},
     concurrent |-> NumHandlers, horizon |-> MaxKeyTime,
     requests |-> MaxKeyRequests, providers |-> {}]

\* one credential, no rules, one request at a time, over a run longer than
\* the cache ttl
CacheConfig ==
    [APIKeys |-> <<APIKey("openai", 2)>>, ModelRules |-> <<>>,
     inbound |-> JsonBodies({"gpt-4"}),
     concurrent |-> 1, horizon |-> MaxCacheTime, requests |-> MaxRequests,
     providers |-> {}]

---------------------------------------------------------------------------
(* The rotator used directly by one sequential caller, as TestRateLimiting *)
(* does: GetKey, then ReportUsage for the key obtained.                    *)

\* held: the key GetKey returned and ReportUsage is still to be called for;
\* err: whether the last GetKey failed.  History, kept by the documented
\* window rule (a window opens at the first acquire and lasts a minute):
\* windowStart; cycles: the GetKey+ReportUsage cycles completed in the
\* window; elapsed, before: what the last GetKey met.
NoClient ==
    [op |-> "none", provider |-> "", held |-> 0, err |-> FALSE, calls |-> 0,
     windowStart |-> ZeroTime, cycles |-> 0, elapsed |-> FALSE, before |-> 0]

\* TestRateLimiting, lines 110-132: key, err := rotator.GetKey(provider)
ClientGetKey(provider) ==
    /\ client.held = 0
    /\ client.calls < MaxCalls
    /\ LET got == GetKey(keys, provider, now)
           elapsed == client.windowStart = ZeroTime
                        \/ now - client.windowStart >= Minute
       IN  /\ keys' = got.keys
           /\ client' = [client EXCEPT
                  !.op = "GetKey", !.provider = provider,
                  !.held = got.key, !.err = (got.key = 0), !.calls = @ + 1,
                  !.windowStart = IF elapsed THEN now ELSE @,
                  !.elapsed = elapsed,
                  !.before = IF elapsed THEN 0 ELSE client.cycles,
                  !.cycles = IF elapsed THEN 0 ELSE @]
    /\ UNCHANGED <<now, ModelRules, modelCounters, entries, hs, env, nreq, nadded, okLog, resolved>>

\* TestRateLimiting, lines 114-120: rotator.ReportUsage(key, 100)
ClientReportUsage ==
    /\ client.held # 0
    /\ client.calls < MaxCalls
    /\ keys' = ReportUsage(keys, client.held, now)
    /\ client' = [client EXCEPT !.op = "ReportUsage", !.held = 0, !.calls = @ + 1,
                                !.cycles = @ + 1]
    /\ UNCHANGED <<now, ModelRules, modelCounters, entries, hs, env, nreq, nadded, okLog, resolved>>

\* the configuration of TestRateLimiting: one credential, two requests a minute
RateLimitConfig ==
    [APIKeys |-> <<APIKey("openai", 2)>>, ModelRules |-> <<>>,
     inbound |-> {}, concurrent |-> 0, horizon |-> MaxRotTime, requests |-> 0,
     providers |-> {"openai"}]

\* one credential, one request a minute
SingleUseConfig ==
    [RateLimitConfig EXCEPT !.APIKeys = <<APIKey("anthropic", 1)>>,
                            !.providers = {"anthropic"}]

\* TestKeyRotator's "multiple keys rotation" and "provider not found", with
\* a credential of another provider between the two openai credentials
MultiKeyConfig ==
    [RateLimitConfig EXCEPT
        !.APIKeys = <<APIKey("openai", 1), APIKey("anthropic", 1), APIKey("openai", 2)>>,
        !.providers = {"openai", "anthropic", "chutes"}]

\* config.go:135-143
isValidProvider(provider) ==
    ToLower(provider) \in {"openai", "anthropic", "openrouter", "chutes"}

\* config.go:145-152
isValidSelectionPolicy(policy) ==
    ToLower(policy) \in {"random", "roundrobin", "fallback"}

\* Config.validate, for the fields of the configuration that are modelled
validate(cfg) ==
    /\ Len(cfg.APIKeys) # 0
    /\ \A i \in 1..Len(cfg.APIKeys) :
          /\ cfg.APIKeys[i].Provider # ""
          /\ cfg.APIKeys[i].MaxRPM > 0
          /\ isValidProvider(cfg.APIKeys[i].Provider)
    /\ \A i \in 1..Len(cfg.ModelRules) :
          /\ cfg.ModelRules[i].SourceModel # ""
          /\ Len(cfg.ModelRules[i].TargetModels) # 0
          /\ cfg.ModelRules[i].SelectionPolicy # ""
          /\ isValidSelectionPolicy(cfg.ModelRules[i].SelectionPolicy)

\* config.Load and NewServer(cfg) for one of the deployments: a
\* configuration that fails validation starts no server
InitFrom(deployments) ==
    /\ now = 0
    /\ \E d \in deployments :
          /\ validate(d)
          /\ ModelRules = d.ModelRules
          /\ keys = NewKeyRotator(d.APIKeys)
          /\ env = [inbound |-> d.inbound, concurrent |-> d.concurrent,
                    horizon |-> d.horizon, requests |-> d.requests,
                    providers |-> d.providers]
    /\ modelCounters = <<>>
    /\ entries = <<>>
    /\ hs = [p \in Handlers |-> Idle]
    /\ nreq = 0
    /\ nadded = 0
    /\ okLog = <<>>
    /\ resolved = <<>>
    /\ client = NoClient

Init == InitFrom({TestConfig})

SeqInit ==
    InitFrom({TestConfigSeq, AliasConfig, OverlapConfig, UnsupportedConfig,
              MixedCaseConfig})

RotInit == InitFrom({RateLimitConfig, SingleUseConfig, MultiKeyConfig})

Next ==
    \/ \E p \in Handlers :
          \/ Receive(p)
          \/ Route(p)
          \/ RouteReport(p)
          \/ AcquireKey(p)
          \/ Upstream(p)
          \/ FallbackTry(p)
          \/ FallbackUpstream(p)
          \/ Finish(p)
          \/ Deferred(p)
    \/ Tick

\* concurrent requests against the test configuration
Spec == Init /\ [][Next]_vars

\* one request at a time against each sequential deployment
SeqSpec == SeqInit /\ [][Next]_vars

CacheInit == InitFrom({CacheConfig})

\* the steps of a deployment without fallback rules: getTargetModel never
\* probes a credential and the fallback chain is never entered
PlainNext ==
    \/ \E p \in Handlers :
          \/ Receive(p)
          \/ Route(p)
          \/ AcquireKey(p)
          \/ Upstream(p)
          \/ Finish(p)
          \/ Deferred(p)
    \/ Tick

\* one request at a time over a run longer than the cache ttl
CacheSpec == CacheInit /\ [][PlainNext]_vars

RRInit == InitFrom({RoundRobinConfig})

RRSeqInit == InitFrom({RoundRobinSeqConfig})

\* concurrent requests under a roundrobin rule
RRSpec == RRInit /\ [][PlainNext]_vars

\* sequential requests under a roundrobin rule
RRSeqSpec == RRSeqInit /\ [][PlainNext]_vars

KeyInit == InitFrom({FingerprintConfig})

\* concurrent requests that differ in their fingerprint fields
KeySpec == KeyInit /\ [][PlainNext]_vars

RotNext ==
    \/ \E provider \in env.providers : ClientGetKey(provider)
    \/ ClientReportUsage
    \/ Tick

\* the rotator under one sequential caller
RotSpec == RotInit /\ [][RotNext]_vars

---------------------------------------------------------------------------
(* Properties.                                                             *)

Done(p) == hs[p].pc = "done"

RECURSIVE Count(_, _)
\* the number of occurrences of x in the sequence s
Count(s, x) ==
    IF s = <<>> THEN 0
    ELSE (IF Head(s) = x THEN 1 ELSE 0) + Count(Tail(s), x)

GrantedKeys(h) == [n \in 1..Len(h.grants) |-> h.grants[n].key]

CalledKeys(h) == [n \in 1..Len(h.calls) |-> h.calls[n].key]

KeyIds == 1..Len(keys)

\* C1: in every reachable state, under every interleaving of concurrent
\* requests, each credential's usageCount lies in [0, MaxRPM], and every
\* grant of GetKey found the credential's usageCount strictly below MaxRPM.
C1_UsageWithinBudget ==
    /\ \A k \in KeyIds :
          keys[k].usageCount >= 0 /\ keys[k].usageCount <= keys[k].MaxRPM
    /\ \A p \in Handlers : \A n \in 1..Len(hs[p].grants) :
          hs[p].grants[n].usage < keys[hs[p].grants[n].key].MaxRPM

Range(s) == {s[n] : n \in 1..Len(s)}

\* the rule getTargetModel matches first for the model as requested
RuleOf(h) == MatchRule(ModelRules, h.in.Model, 1)

IsFallback(h) ==
    RuleOf(h) # 0 /\ ModelRules[RuleOf(h)].SelectionPolicy = "fallback"

TargetsOf(h) == ModelRules[RuleOf(h)].TargetModels

NoKeysResponse == [code |-> StatusTooManyRequests, body |-> "No available API keys"]

\* C3: for a fallback rule with candidates [A, B], once the call for A has
\* returned 429 the next call of the request is for B (unless no credential
\* could be acquired for B), and when B's call returns 200 the caller gets
\* B's response with status 200 and the cache holds it under the
\* fingerprint of the request as received.
C3_FallbackToSecond ==
    \A p \in Handlers :
        LET h == hs[p]
            T == TargetsOf(h)
        IN  ( /\ Done(p) /\ IsFallback(h) /\ Len(T) = 2
              /\ h.calls # <<>>
              /\ h.calls[1].model = T[1]
              /\ h.calls[1].status = StatusTooManyRequests )
            => /\ \/ T[2] \in Range(h.skipped)
                  \/ Len(h.calls) >= 2 /\ h.calls[2].model = T[2]
               /\ ( Len(h.calls) >= 2 /\ h.calls[2].status = StatusOK )
                  => /\ h.calls[2].model = T[2]
                     /\ h.w = [code |-> StatusOK, body |-> h.calls[2].body]
                     /\ generateCacheKey(h.in) \in DOMAIN entries
                     /\ entries[generateCacheKey(h.in)].Data = h.calls[2].body

\* C4: for a single credential with budget N used by a sequential caller,
\* GetKey succeeds while fewer than N cycles were completed in the current
\* 60-second window, fails once N were completed in it, and succeeds again
\* when it is called after the window has elapsed.
C4_WindowedBudget ==
    (client.op = "GetKey" /\ Len(keys) = 1) =>
        /\ client.elapsed => ~client.err
        /\ (~client.elapsed /\ client.before < keys[1].MaxRPM) => ~client.err
        /\ (~client.elapsed /\ client.before = keys[1].MaxRPM) => client.err

\* C5: when a request has ended, every credential GetKey granted to it has
\* been reported with ReportUsage, once for every grant.
C5_EveryGrantReported ==
    \A p \in Handlers : Done(p) =>
        \A k \in KeyIds :
            Count(hs[p].reports, k) >= Count(GrantedKeys(hs[p]), k)

\* C6: when a request has ended, the usage it charged to each credential
\* equals the number of upstream calls it made with that credential.
C6_OneUnitPerAttempt ==
    \A p \in Handlers : Done(p) =>
        \A k \in KeyIds :
            Count(hs[p].reports, k) = Count(CalledKeys(hs[p]), k)

\* the last upstream call of h that returned a response
LastResponse(h) ==
    LET got == {n \in 1..Len(h.calls) : h.calls[n].status > 0}
        n == CHOOSE x \in got : \A y \in got : y <= x
    IN  [code |-> h.calls[n].status, body |-> h.calls[n].body]

\* C7: when the fallback chain was entered, every upstream call of the
\* request returned a response and none of them was a success, the caller
\* receives the status and body of the last upstream response received.
C7_LastResponseForwarded ==
    \A p \in Handlers :
        LET h == hs[p]
        IN  ( /\ Done(p) /\ h.lr # 0
              /\ \A n \in 1..Len(h.calls) :
                    h.calls[n].status > 0 /\ h.calls[n].status # StatusOK )
            => h.w = LastResponse(h)

\* C8: every request whose handler has ended, every upstream call having
\* returned a response or a transport error, has delivered a response to
\* its caller.
C8_AlwaysResponds ==
    \A p \in Handlers : Done(p) => hs[p].w # NoResponse

\* C9 as claimed: under a fallback rule, when no credential could be
\* acquired for the first candidate the request ends with the
\* no-available-keys error and no upstream call, and a candidate other than
\* the first is called only after a call of the request returned 429.
C9_FirstCandidateOnly ==
    \A p \in Handlers :
        LET h == hs[p]
            T == TargetsOf(h)
        IN  IsFallback(h) =>
              /\ (Done(p) /\ T[1] \in Range(h.skipped))
                    => h.w = NoKeysResponse /\ h.calls = <<>>
              /\ \A n \in 1..Len(h.calls) :
                    h.calls[n].model # T[1] =>
                       \E n1 \in 1..(n - 1) :
                          h.calls[n1].status = StatusTooManyRequests

\* C9 as amended: under a fallback rule the candidate called first is the
\* first target for which getTargetModel could acquire a credential (every
\* earlier target was passed over for lack of one), the no-available-keys
\* error is given without any upstream call, and a further candidate is
\* called only after the first call returned 429.
C9_FirstAvailableCandidate ==
    \A p \in Handlers :
        LET h == hs[p]
            T == TargetsOf(h)
        IN  IsFallback(h) =>
              /\ h.w = NoKeysResponse => h.calls = <<>>
              /\ h.calls # <<>> =>
                    \/ \E j \in 1..Len(T) :
                          /\ h.calls[1].model = T[j]
                          /\ \A j1 \in 1..(j - 1) : T[j1] \in Range(h.skipped)
                    \/ \A j \in 1..Len(T) : T[j] \in Range(h.skipped)
              /\ Len(h.calls) >= 2 => h.calls[1].status = StatusTooManyRequests

\* C9's case: a request under a fallback rule that called the second
\* candidate first, the first having been passed over, with no 429 received
C9_Witness ==
    \E p \in Handlers :
        LET h == hs[p]
        IN  /\ Done(p) /\ IsFallback(h) /\ Len(h.calls) = 1
            /\ h.calls[1].model = TargetsOf(h)[2]
            /\ TargetsOf(h)[1] \in Range(h.skipped)
            /\ h.calls[1].status = StatusOK

\* C11: a request is never answered from the cache when, at its lookup, the
\* time is at or past the expiry (store time + ttl) of the entry stored for
\* its fingerprint, the instant of expiry included.
C11_NoHitAtOrPastExpiry ==
    \A p \in Handlers : hs[p].hit => hs[p].latest # ""

CacheHoldsSuccesses ==
    \A k \in DOMAIN entries :
        /\ k \in DOMAIN okLog
        /\ entries[k].Data = okLog[k].latest
        /\ okLog[k].status = StatusOK
        /\ k = generateCacheKey(okLog[k].from)

\* a request whose last upstream call returned a response with a status
\* other than 200 has that response as its own
NonSuccessForwarded ==
    \A p \in Handlers :
        LET h == hs[p]
            n == Len(h.calls)
        IN  ( /\ Done(p) /\ n > 0
              /\ h.calls[n].status > 0 /\ h.calls[n].status # StatusOK )
            => h.w = [code |-> h.calls[n].status, body |-> h.calls[n].body]

\* C13: in every reachable state every cache entry holds the body of an
\* upstream response that had status 200, stored under the fingerprint of
\* the request as received, and a response with any other status has been
\* forwarded to the caller (and is in no cache entry).
C13_OnlySuccessCached == CacheHoldsSuccesses /\ NonSuccessForwarded

\* the roundrobin rule of the deployment, its source model and its targets
RoundRobinRule ==
    CHOOSE r \in 1..Len(ModelRules) : ModelRules[r].SelectionPolicy = "roundrobin"

RoundRobinSource == ModelRules[RoundRobinRule].SourceModel

RoundRobinTargets == ModelRules[RoundRobinRule].TargetModels

\* C14 as claimed: sequential resolutions of a roundrobin rule with
\* candidates [A, B, C] on a fresh server return A, B, C, A, B, C, ...,
\* the first resolution returning A.
C14_CycleFromFirst ==
    \A n \in 1..Len(resolved) :
        resolved[n] = RoundRobinTargets[((n - 1) % Len(RoundRobinTargets)) + 1]

\* C14 as amended: sequential resolutions of a roundrobin rule with
\* candidates [A, B, C] on a fresh server return B, C, A, B, C, A, ...: the
\* fixed cyclic order, the first resolution returning the second candidate.
C14_CycleFromSecond ==
    \A n \in 1..Len(resolved) :
        resolved[n] = RoundRobinTargets[(n % Len(RoundRobinTargets)) + 1]

\* C14's case: more resolutions than candidates, so the cycle has wrapped
\* around and started again
C14_Witness ==
    /\ env.concurrent = 1
    /\ Len(resolved) > Len(RoundRobinTargets) + 1

\* C15: under every interleaving of concurrent resolutions of a roundrobin
\* rule with n targets, the cursor of the source model is in 0..n-1 and has
\* advanced by one modulo n for every resolution, each resolution returned
\* the target at the cursor's new position, and any n*k resolutions
\* returned each target exactly k times.
C15_CursorAdvancesByOne ==
    resolved # <<>> =>
        LET T == RoundRobinTargets
            n == Len(T)
            cursor == CounterOf(modelCounters, RoundRobinSource)
        IN  /\ cursor \in 0..(n - 1)
            /\ cursor = Len(resolved) % n
            /\ resolved[Len(resolved)] = T[cursor + 1]
            /\ Len(resolved) % n = 0 =>
                  \A t \in Range(T) : Count(resolved, t) = Len(resolved) \div n

\* C15's case: two handlers have resolved the rule and are both in flight,
\* and the resolutions so far are two full rounds
C15_Witness ==
    /\ \A p \in Handlers : hs[p].pc \in {"getKey", "upstream", "finish", "return"}
    /\ Len(resolved) = 2 * Len(RoundRobinTargets)

\* C16: when GetKey examines a credential at least a minute after the
\* credential's counting window began, it resets usageCount to zero before
\* the budget test, so the credential is granted again, even if its last
\* use was less than a minute ago.
C16_ResetAtWindowStart ==
    (client.op = "GetKey" /\ Len(keys) = 1 /\ client.elapsed) =>
        /\ keys[1].usageCount = 0
        /\ ~client.err

\* the credentials of the provider the caller asked for that have budget left
FreeKeys ==
    {k \in KeyIds : /\ keys[k].Provider = client.provider
                    /\ keys[k].usageCount < keys[k].MaxRPM}

\* C18: GetKey(provider) returns the first credential, in configuration
\* order, of that provider whose usageCount is below its budget, never a
\* credential of another provider, and fails exactly when no credential of
\* the provider has budget left (none being configured included).
C18_FirstFit ==
    client.op = "GetKey" =>
        /\ client.err <=> FreeKeys = {}
        /\ ~client.err =>
              /\ client.held \in FreeKeys
              /\ \A k \in FreeKeys : client.held <= k

\* C18's case: GetKey has passed over an exhausted credential and one of
\* another provider and returned the third credential
C18_Witness ==
    /\ client.op = "GetKey" /\ client.held = 3
    /\ keys[1].usageCount = keys[1].MaxRPM
    /\ keys[2].Provider # client.provider

\* C17: when a request reports the usage of a credential it was granted and
\* GetKey has reset the credential's counter a minute or more after the
\* grant (the window of the grant has expired and a new one is counted),
\* the report does not increase the credential's usageCount.
C17_NoLateCharge ==
    [][\A p \in Handlers :
         LET n == Len(hs'[p].reports)
         IN  n = Len(hs[p].reports) + 1 =>
               LET g == hs[p].grants[n]
               IN  keys[g.key].resetAt - g.at >= Minute =>
                      keys'[g.key].usageCount = keys[g.key].usageCount]_vars

\* C19: any two requests that differ in model name, in a message's role or
\* content, in message order or count, in max-tokens or in temperature get
\* different cache keys (the digest being injective on the bytes hashed).
C19_DistinctFieldsDistinctKeys ==
    \A p, q \in Handlers :
        ( /\ hs[p].cacheKey # "" /\ hs[q].cacheKey # ""
          /\ hs[p].in # hs[q].in )
        => hs[p].cacheKey # hs[q].cacheKey

\* C20: a body that is neither a command nor valid JSON is answered 400
\* "Invalid request format" in the step that receives it, which ends the
\* request: no credential is acquired or charged, no upstream call is made,
\* and no credential, round-robin cursor or cache entry changes.
C20_MalformedRejected ==
    [][\A p \in Handlers :
         (hs'[p].kind = "malformed" /\ hs'[p] # hs[p]) =>
            /\ hs'[p].pc = "done"
            /\ hs'[p].w = [code |-> StatusBadRequest,
                           body |-> "Invalid request format"]
            /\ hs'[p].calls = <<>>
            /\ hs'[p].grants = <<>>
            /\ hs'[p].reports = <<>>
            /\ keys' = keys
            /\ modelCounters' = modelCounters
            /\ entries' = entries]_vars

\* C20's case: a malformed body has been answered while a credential
\* carries usage and the cache holds an entry
C20_Witness ==
    \E p \in Handlers :
        /\ hs[p].kind = "malformed" /\ Done(p)
        /\ \E k \in KeyIds : keys[k].usageCount > 0
        /\ entries # <<>>

\* C21: a request answered with 200 either hit the cache or saw one of its
\* own upstream calls return 200, and then the caller holds that call's
\* body; a request all of whose calls failed is never answered with 200.
C21_SuccessHasSource ==
    \A p \in Handlers :
       LET h == hs[p] IN
       (h.kind = "json" /\ h.w.code = StatusOK) =>
          \/ h.hit
          \/ \E n \in 1..Len(h.calls) :
                /\ h.calls[n].status = StatusOK
                /\ h.calls[n].body = h.w.body

\* C21: a request whose first call was rate limited is answered with the
\* 200 of its second call
C21_Witness ==
    \E p \in Handlers :
       /\ Done(p) /\ ~hs[p].hit /\ hs[p].w.code = StatusOK
       /\ Len(hs[p].calls) = 2
       /\ hs[p].calls[1].status = StatusTooManyRequests
       /\ hs[p].calls[2].status = StatusOK

\* C22: once the first upstream call of a request has failed in transport,
\* every step of that request leaves it with that one call and the 502
\* "Provider request failed" response, and leaves the cache as it was.
C22_TransportFailureIsBadGateway ==
    [][\A p \in Handlers :
         (/\ hs'[p] # hs[p]
          /\ hs'[p].calls # <<>>
          /\ hs'[p].calls[1].status = NilResp.StatusCode) =>
            /\ Len(hs'[p].calls) = 1
            /\ hs'[p].pc \in {"return", "done"}
            /\ hs'[p].w = [code |-> StatusBadGateway,
                           body |-> "Provider request failed"]
            /\ entries' = entries]_vars

\* C22: a request under a fallback rule ended after the transport failure
\* of its first call, while the cache held an entry
C22_Witness ==
    \E p \in Handlers :
       /\ Done(p) /\ IsFallback(hs[p])
       /\ Len(hs[p].calls) = 1
       /\ hs[p].calls[1].status = NilResp.StatusCode
       /\ hs[p].w.code = StatusBadGateway
       /\ entries # <<>>

\* C23: for a request matched by a random rule, the resolution can return
\* each member of the rule's targetModels, and the one model it has
\* returned is a member of targetModels.
C23_RandomIsAnyMember ==
    \A p \in Handlers :
       LET h == hs[p] IN
       (/\ h.kind = "json" /\ h.pc # "idle" /\ ~h.hit
        /\ RuleOf(h) # 0
        /\ ModelRules[RuleOf(h)].SelectionPolicy = "random") =>
          IF h.pc = "routing"
          THEN \A t \in Range(TargetsOf(h)) :
                  ENABLED (Route(p) /\ hs'[p].targetModel = t)
          ELSE h.targetModel \in Range(TargetsOf(h))

\* C23: a random rule has resolved to its last candidate, which is being
\* called upstream
C23_Witness ==
    \E p \in Handlers :
       /\ RuleOf(hs[p]) # 0
       /\ ModelRules[RuleOf(hs[p])].SelectionPolicy = "random"
       /\ hs[p].pc = "upstream"
       /\ hs[p].targetModel = TargetsOf(hs[p])[Len(TargetsOf(hs[p]))]
       /\ hs[p].calls[1].model = hs[p].targetModel

\* C24: the step that handles the command "#roxy cache clear" leaves the
\* cache without entries.
C24_CacheClearEmpties ==
    [][\A p \in Handlers :
         (hs'[p].parts = <<"#roxy", "cache", "clear">> /\ hs'[p] # hs[p]) =>
            entries' = <<>>]_vars

\* C25: under every interleaving of concurrent requests, the number of
\* grants of one credential since the latest reset of its counter is at
\* most its MaxRPM.
C25_GrantsWithinBudget ==
    \A k \in KeyIds : keys[k].granted <= keys[k].MaxRPM

\* C26: when a rule matches the model a request asks for, the model the
\* request is first sent upstream for is a member of that rule's
\* targetModels; the source model is not sent when no candidate's provider
\* had an available credential, unless it is one of the targetModels.
C26_OnlyTargetsSentUpstream ==
    \A p \in Handlers :
       LET h == hs[p] IN
       (h.kind = "json" /\ RuleOf(h) # 0 /\ h.calls # <<>>) =>
          h.calls[1].model \in Range(TargetsOf(h))

\* C27: a request makes at most len(targetModels) upstream calls when the
\* rule matching its model has policy fallback and at most one otherwise,
\* and none of its calls but the last has returned 200.
C27_ChainBounded ==
    \A p \in Handlers :
       LET h == hs[p] IN
       h.kind = "json" =>
          /\ Len(h.calls) <= (IF IsFallback(h) THEN Len(TargetsOf(h)) ELSE 1)
          /\ \A n \in 1..(Len(h.calls) - 1) : h.calls[n].status # StatusOK

\* C28: within one request whose retry loop runs over the rule matching its
\* own model, no model is called upstream twice, also when the first call
\* was for a candidate other than targetModels[0].
C28_NoCandidateTwice ==
    \A p \in Handlers :
       LET h == hs[p] IN
       (h.lr # 0 /\ h.lr = RuleOf(h)) =>
          \A n, k \in 1..Len(h.calls) :
             n # k => h.calls[n].model # h.calls[k].model

\* C29: with one request at a time, a request is answered "No available
\* API keys" only if on its arrival no credential of the provider of the
\* candidate selected for it had usageCount below its budget.
C29_RejectedOnlyWhenExhausted ==
    \A p \in Handlers :
       hs[p].w = NoKeysResponse => hs[p].provider \notin hs[p].avail

\* the first call of the request returned 429, its retry loop has ended and
\* has passed over every remaining candidate for want of a credential
ChainSkipped(h) ==
    /\ h.lr # 0 /\ h.pc \in {"finish", "return", "done"}
    /\ Len(h.calls) = 1 /\ h.calls[1].status = StatusTooManyRequests
    /\ \A n \in 2..Len(ModelRules[h.lr].TargetModels) :
          ModelRules[h.lr].TargetModels[n] \in Range(h.skipped)

\* C30: when the first call returned 429 and every remaining candidate was
\* skipped for want of a credential, the steps that end the request make no
\* upstream call, write nothing to the cache and answer the caller with the
\* first call's status 429 and body.
C30_FirstRateLimitForwarded ==
    [][\A p \in Handlers :
         (/\ ChainSkipped(hs[p]) /\ hs[p].pc \in {"finish", "return"}
          /\ hs'[p] # hs[p]) =>
            /\ hs'[p].calls = hs[p].calls
            /\ entries' = entries
            /\ hs'[p].w = [code |-> StatusTooManyRequests,
                           body |-> hs[p].calls[1].body]]_vars

\* C30: such a request, under its own fallback rule, has been answered
C30_Witness ==
    \E p \in Handlers :
       /\ Done(p) /\ ChainSkipped(hs[p])
       /\ IsFallback(hs[p]) /\ hs[p].lr = RuleOf(hs[p])
       /\ hs[p].w = [code |-> StatusTooManyRequests,
                     body |-> hs[p].calls[1].body]

\* C31: a request for which a credential of a provider without upstream
\* endpoint was granted, for its first candidate or for a later fallback
\* candidate, ends with 400 "Unsupported provider", and no upstream call is
\* issued for a model of such a provider.
C31_UnsupportedProviderRejected ==
    \A p \in Handlers :
       LET h == hs[p] IN
       /\ \A n \in 1..Len(h.calls) :
             SupportedProvider(getProviderForModel(h.calls[n].model))
       /\ (/\ Done(p)
           /\ \E n \in 1..Len(h.grants) :
                 ~SupportedProvider(keys[h.grants[n].key].Provider)) =>
             h.w = [code |-> StatusBadRequest, body |-> "Unsupported provider"]

\* C32: a rule accepted by validation is resolved by its policy: while none
\* of its candidates was passed over, the model resolved for a request it
\* matches is one of its targetModels.
C32_ValidatedRuleResolved ==
    \A p \in Handlers :
       LET h == hs[p] IN
       (/\ h.kind = "json" /\ ~h.hit /\ h.skipped = <<>>
        /\ h.pc \in {"getKey", "upstream", "return", "done"}
        /\ RuleOf(h) # 0
        /\ isValidSelectionPolicy(ModelRules[RuleOf(h)].SelectionPolicy)) =>
          h.targetModel \in Range(TargetsOf(h))

\* C32: a credential accepted by validation can be granted: with one
\* request at a time, a request that was granted nothing is answered "No
\* available API keys" only if on its arrival no credential of the
\* selected provider, compared as validation compares, was within budget.
C32_ValidatedKeyGranted ==
    \A p \in Handlers :
       (hs[p].w = NoKeysResponse /\ hs[p].grants = <<>>) =>
          hs[p].provider \notin {ToLower(x) : x \in hs[p].avail}

\* C32: every rule and credential accepted by validation is honoured at
\* run time.
C32_ValidatedConfigHonoured ==
    C32_ValidatedRuleResolved /\ C32_ValidatedKeyGranted

\* C10: after the first upstream call returned 429, the chain of the rule
\* matching the model as requested is iterated when that rule has policy
\* fallback and candidates remain after the one called, and no chain is
\* iterated when that rule is not a fallback rule.
C10_ChainByOriginalRule ==
    \A p \in Handlers :
        LET h == hs[p]
            T == TargetsOf(h)
        IN  (h.calls # <<>> /\ h.calls[1].status = StatusTooManyRequests)
            => /\ ( /\ IsFallback(h)
                    /\ \E n \in 1..(Len(T) - 1) : h.calls[1].model = T[n] )
                  => h.lr = RuleOf(h)
               /\ ~IsFallback(h) => h.lr = 0

===========================================================================
